---- MODULE Spec2Model ----
(***************************************************************************)
(* SQLite-backed node stores of private_gpt                                *)
(* (private_gpt/components/node_store/sqlite_store.py).                    *)
(*                                                                         *)
(* The model has three layers:                                             *)
(*   - the payload codec (json.dumps / json.loads) over token sequences;   *)
(*   - the database file as Python's sqlite3 module drives it with its     *)
(*     default settings: DDL runs in autocommit, the first DELETE/INSERT   *)
(*     opens a transaction that takes the file's write lock, commit()      *)
(*     publishes the transaction, close() without commit rolls it back,    *)
(*     every SELECT outside a transaction is a read transaction of its     *)
(*     own;                                                                *)
(*   - the four module functions and the two store classes, one action     *)
(*     per SQL statement of a call so that callers can interleave.         *)
(***************************************************************************)
EXTENDS Integers, Sequences, FiniteSets, TLC

VARIABLES
    fs,         \* the file system: path -> database file
    lock,       \* path -> the caller whose connection holds the write lock
    pc,         \* caller -> position inside the call it is running
    call,       \* caller -> locals of its current (or last) call
    outcome,    \* caller -> what its last finished call returned or raised
    store,      \* store kind -> the application's store instance (_db_path)
    persisted   \* history: path -> snapshot of the last persist that returned

vars == <<fs, lock, pc, call, outcome, store, persisted>>

(***************************************************************************)
(* Python values                                                           *)
(***************************************************************************)
JNull    == [t |-> "null"]
JBool(b) == [t |-> "bool", b |-> b]
JNum(n)  == [t |-> "num", n |-> n]
JStr(s)  == [t |-> "str", s |-> s]
JArr(a)  == [t |-> "arr", a |-> a]
JObj(o)  == [t |-> "obj", o |-> o]
\* a Python object json cannot serialize (a set, a class instance)
PyObject == [t |-> "pyobj"]

\* dict helpers: a dict is a function from its keys
EmptyDict == <<>>
Put(d, k, v) == [x \in (DOMAIN d) \cup {k} |-> IF x = k THEN v ELSE d[x]]
Get(d, k, default) == IF k \in DOMAIN d THEN d[k] ELSE default
Without(d, ks) == [x \in (DOMAIN d) \ ks |-> d[x]]

RECURSIVE SetToSeq(_)
SetToSeq(S) ==
    IF S = {} THEN <<>>
    ELSE LET k == CHOOSE x \in S : TRUE IN <<k>> \o SetToSeq(S \ {k})

(***************************************************************************)
(* json.dumps and json.loads.  Text is a sequence of JSON tokens.          *)
(***************************************************************************)
MaxNum == 2
JsonStrings == {"", "hello", "text", "X", "vector", "type", "d1"}
Quote(s) == "\"" \o s \o "\""
StrTokens == {Quote(s) : s \in JsonStrings}
NumTokens == {ToString(n) : n \in 0..MaxNum}
Unquote(tok) == CHOOSE s \in JsonStrings : Quote(s) = tok
UnNum(tok) == CHOOSE n \in 0..MaxNum : ToString(n) = tok

RECURSIVE Encodable(_)
Encodable(v) ==
    CASE v.t = "arr" -> \A i \in DOMAIN v.a : Encodable(v.a[i])
      [] v.t = "obj" -> \A k \in DOMAIN v.o : Encodable(v.o[k])
      [] v.t = "pyobj" -> FALSE
      [] OTHER -> TRUE

RECURSIVE Dumps(_), DumpItems(_, _), DumpMembers(_, _)
DumpItems(a, i) ==
    IF i > Len(a) THEN <<>>
    ELSE (IF i > 1 THEN <<",">> ELSE <<>>) \o Dumps(a[i]) \o DumpItems(a, i + 1)
DumpMembers(o, ks) ==
    IF ks = <<>> THEN <<>>
    ELSE <<Quote(Head(ks)), ":">> \o Dumps(o[Head(ks)])
         \o (IF Len(ks) > 1 THEN <<",">> ELSE <<>>)
         \o DumpMembers(o, Tail(ks))
Dumps(v) ==
    CASE v.t = "null" -> <<"null">>
      [] v.t = "bool" -> <<IF v.b THEN "true" ELSE "false">>
      [] v.t = "num" -> <<ToString(v.n)>>
      [] v.t = "str" -> <<Quote(v.s)>>
      [] v.t = "arr" -> <<"[">> \o DumpItems(v.a, 1) \o <<"]">>
      [] v.t = "obj" -> <<"{">> \o DumpMembers(v.o, SetToSeq(DOMAIN v.o)) \o <<"}">>

\* json.dumps(value): the text, or TypeError for a value json cannot serialize
json_dumps(v) ==
    IF Encodable(v) THEN [ok |-> TRUE, text |-> Dumps(v)]
    ELSE [ok |-> FALSE, text |-> <<>>]

ParseFail == [ok |-> FALSE, v |-> JNull, rest |-> <<>>]
ParseOk(v, rest) == [ok |-> TRUE, v |-> v, rest |-> rest]

RECURSIVE ParseValue(_), ParseItems(_, _), ParseMembers(_, _)
ParseItems(toks, acc) ==
    LET e == ParseValue(toks) IN
    IF ~e.ok \/ e.rest = <<>> THEN ParseFail
    ELSE IF Head(e.rest) = "]" THEN ParseOk(JArr(Append(acc, e.v)), Tail(e.rest))
    ELSE IF Head(e.rest) = "," THEN ParseItems(Tail(e.rest), Append(acc, e.v))
    ELSE ParseFail
ParseMembers(toks, acc) ==
    IF Len(toks) < 2 THEN ParseFail
    ELSE IF toks[1] \notin StrTokens \/ toks[2] # ":" THEN ParseFail
    ELSE LET k == Unquote(toks[1])
             e == ParseValue(SubSeq(toks, 3, Len(toks)))
         IN  IF ~e.ok \/ e.rest = <<>> THEN ParseFail
             ELSE IF Head(e.rest) = "}"
                  THEN ParseOk(JObj(Put(acc, k, e.v)), Tail(e.rest))
             ELSE IF Head(e.rest) = ","
                  THEN ParseMembers(Tail(e.rest), Put(acc, k, e.v))
             ELSE ParseFail
ParseValue(toks) ==
    IF toks = <<>> THEN ParseFail
    ELSE LET h == Head(toks)
             r == Tail(toks)
         IN  CASE h = "null" -> ParseOk(JNull, r)
               [] h = "true" -> ParseOk(JBool(TRUE), r)
               [] h = "false" -> ParseOk(JBool(FALSE), r)
               [] h \in NumTokens -> ParseOk(JNum(UnNum(h)), r)
               [] h \in StrTokens -> ParseOk(JStr(Unquote(h)), r)
               [] h = "[" -> IF r # <<>> /\ Head(r) = "]"
                             THEN ParseOk(JArr(<<>>), Tail(r))
                             ELSE ParseItems(r, <<>>)
               [] h = "{" -> IF r # <<>> /\ Head(r) = "}"
                             THEN ParseOk(JObj(EmptyDict), Tail(r))
                             ELSE ParseMembers(r, EmptyDict)
               [] OTHER -> ParseFail

\* json.loads(text): the value, or JSONDecodeError for text that is no document
json_loads(text) ==
    LET r == ParseValue(text) IN
    IF r.ok /\ r.rest = <<>> THEN [ok |-> TRUE, v |-> r.v]
    ELSE [ok |-> FALSE, v |-> JNull]

(***************************************************************************)
(* Paths and database files                                                *)
(***************************************************************************)
DOCSTORE_DB == "docstore.sqlite"
IndexStoreInDocstoreFile == "docstore.sqlite"
INDEXSTORE_DB == "indexstore.sqlite"

\* db_name = None
NoName == "<None>"
\* _db_path = None
NoPath == <<>>
PersistDirs == {"store"}
FileNames == {DOCSTORE_DB, INDEXSTORE_DB, "docstore.db", "index.db"}
Paths == PersistDirs \X FileNames

\* Path(persist_dir) / (db_name or DEFAULT): None and "" are both falsy
ResolvePathDefaultOnly(persist_dir, db_name, default) == <<persist_dir, default>>
ResolvePath(persist_dir, db_name, default) ==
    <<persist_dir, IF db_name \in {NoName, ""} THEN default ELSE db_name>>

\* the tables of each schema, in the order the code creates them
DocTables == <<"documents", "ref_doc_info", "metadata">>
IndexTables == <<"index_metadata">>
AllTables == {"documents", "ref_doc_info", "metadata", "index_metadata"}
Range(s) == {s[i] : i \in DOMAIN s}

EmptyRows == [t \in AllTables |-> EmptyDict]
\* no file at the path
NoFile == [exists |-> FALSE, tables |-> {}, rows |-> EmptyRows]
\* the zero-length file sqlite3.connect leaves at a path that had none
EmptyDbFile == [exists |-> TRUE, tables |-> {}, rows |-> EmptyRows]

\* db_path.exists()
ExistsAndHasTables(file) == file.exists /\ file.tables # {}
Exists(file) == file.exists

\* CREATE TABLE IF NOT EXISTS for the first k tables of a schema (autocommit)
CreateTablesDropping(file, schema, k) ==
    [file EXCEPT !.tables = @ \cup {schema[i] : i \in 1..k},
                 !.rows = [t \in AllTables |->
                             IF t \in {schema[i] : i \in 1..k} THEN EmptyDict ELSE @[t]]]
CreateTables(file, schema, k) ==
    [file EXCEPT !.tables = @ \cup {schema[i] : i \in 1..k}]

\* a connection's open transaction: its private, uncommitted copy of the rows
NoTxn == [active |-> FALSE, rows |-> EmptyRows]
\* the implicit BEGIN sqlite3 issues before the first DELETE/INSERT
BeginTxn(txn, file) ==
    IF txn.active THEN txn ELSE [active |-> TRUE, rows |-> file.rows]
\* DELETE FROM table
ExecDelete(txn, table) == [txn EXCEPT !.rows[table] = EmptyDict]
\* INSERT OR REPLACE INTO table of the given (key, text) rows
InsertOrReplace(txn, table, new) ==
    LET old == txn.rows[table] IN
    [txn EXCEPT !.rows[table] =
        [k \in (DOMAIN old) \cup (DOMAIN new) |->
            IF k \in DOMAIN new THEN new[k] ELSE old[k]]]

\* executemany over the generator (key, json.dumps(value)) for key, value in
\* items.items(): rows are inserted one by one; the first value json cannot
\* serialize raises TypeError out of the generator, the rows before it stay
\* in the transaction
ExecuteMany(txn, table, items) ==
    LET ks == SetToSeq(DOMAIN items)
        bad == {i \in DOMAIN ks : ~json_dumps(items[ks[i]]).ok}
        n == IF bad = {} THEN Len(ks)
             ELSE (CHOOSE i \in bad : \A j \in bad : i <= j) - 1
        done == {ks[i] : i \in 1..n}
    IN  [ok |-> bad = {},
         txn |-> InsertOrReplace(txn, table,
                     [k \in done |-> json_dumps(items[k]).text])]

\* DELETE FROM table; if items: executemany(INSERT OR REPLACE ...)
ReplaceTableUnion(txn, table, items) ==
    IF items # EmptyDict THEN ExecuteMany(txn, table, items)
    ELSE [ok |-> TRUE, txn |-> txn]
ReplaceTable(txn, table, items) ==
    LET cleared == ExecDelete(txn, table) IN
    IF items # EmptyDict THEN ExecuteMany(cleared, table, items)
    ELSE [ok |-> TRUE, txn |-> cleared]

\* sqlite3.connect(db_path) keeps the default isolation level: a statement
\* that ends leaves the transaction open, nothing reaches the file before
\* commit().  (With isolation_level=None every statement would commit.)
Autocommit(file, txn) ==
    [file |-> IF txn.active THEN [file EXCEPT !.rows = txn.rows] ELSE file,
     txn |-> NoTxn]
StatementEnd(file, txn) == [file |-> file, txn |-> txn]

\* connection.commit(): the transaction's rows become the file's rows
CommitFile(file, txn) ==
    IF txn.active THEN [file EXCEPT !.rows = txn.rows] ELSE file
\* connection.close() without commit: the open transaction is rolled back
CloseFileCommitting(file, txn) ==
    IF txn.active THEN [file EXCEPT !.rows = txn.rows] ELSE file
CloseFile(file, txn) == file

\* for key, payload in SELECT ...: d[key] = json.loads(payload)
\* ok is FALSE when json.loads raises on some row
ReadTableSkipping(rows) ==
    LET good == {k \in DOMAIN rows : json_loads(rows[k]).ok} IN
    [ok |-> TRUE, d |-> [k \in good |-> json_loads(rows[k]).v]]
ReadTable(rows) ==
    IF \A k \in DOMAIN rows : json_loads(rows[k]).ok
    THEN [ok |-> TRUE, d |-> [k \in DOMAIN rows |-> json_loads(rows[k]).v]]
    ELSE [ok |-> FALSE, d |-> EmptyDict]

\* d1.update(d2)
Update(d1, d2) ==
    [k \in (DOMAIN d1) \cup (DOMAIN d2) |-> IF k \in DOMAIN d2 THEN d2[k] ELSE d1[k]]

(***************************************************************************)
(* Callers, calls and inputs                                               *)
(***************************************************************************)
Procs == {"t1", "t2"}
NoProc == "none"
Kinds == {"doc", "index"}

\* SqliteDocumentStore() / SqliteIndexStore(): __init__ sets _db_path = None
FreshInstance == [db_path |-> NoPath]

NoCall ==
    [op |-> "none", kind |-> "none", path |-> NoPath, data |-> EmptyDict,
     conn |-> FALSE, txn |-> NoTxn, acc |-> EmptyDict,
     pre |-> NoFile, views |-> {}, conc |-> FALSE]
NoOutcome == [status |-> "none", value |-> EmptyDict]
NoSnapshot == [some |-> FALSE, kind |-> "none", data |-> EmptyDict, dropped |-> FALSE]

LOCKED == "OperationalError: database is locked"
IOERROR == "OperationalError: disk I/O error"
Errors == {"FileNotFoundError", "TypeError", "JSONDecodeError", LOCKED, IOERROR}

\* payloads
Hello == JObj([k \in {"text"} |-> JStr("hello")])
Nested == JArr(<<JNum(1), JStr(""), JObj([k \in {"type"} |-> JArr(<<>>)])>>)

\* to_dict() of a document store: documents, ref_doc_info, extra top-level keys
MkDoc(docs, refs, extra) ==
    Update([k \in {"documents", "ref_doc_info"} |->
               IF k = "documents" THEN docs ELSE refs], extra)
DocumentMaps ==
    {EmptyDict,
     [k \in {"d1", "d2"} |-> IF k = "d1" THEN JNull ELSE Hello],
     [k \in {"d2"} |-> Nested]}
RefDocMaps == {EmptyDict, [k \in {"d1"} |-> JObj([j \in {"d1"} |-> JBool(TRUE)])]}
ExtraMaps ==
    {EmptyDict,
     [k \in {"class_name", "version"} |->
         IF k = "class_name" THEN JStr("X") ELSE JNum(2)]}
\* snapshots json cannot serialize, one per table
UnencodableDocSnapshots ==
    {MkDoc([k \in {"d1", "d2"} |-> IF k = "d1" THEN Hello ELSE PyObject],
           EmptyDict, EmptyDict),
     MkDoc([k \in {"d2"} |-> Hello], [k \in {"d1"} |-> PyObject], EmptyDict),
     MkDoc([k \in {"d2"} |-> Hello], EmptyDict, [k \in {"class_name"} |-> PyObject])}
DocSnapshots ==
    {MkDoc(d, r, e) : d \in DocumentMaps, r \in RefDocMaps, e \in ExtraMaps}
    \cup {EmptyDict,
          [k \in {"ref_doc_info"} |-> [j \in {"d1"} |-> Hello]],
          [k \in {"documents", "class_name"} |->
              IF k = "documents" THEN [j \in {"d1"} |-> Nested] ELSE JStr("X")]}
    \cup UnencodableDocSnapshots
\* to_dict() of an index store: a flat mapping
IndexSnapshots ==
    {EmptyDict,
     [k \in {"index_1"} |-> JObj([j \in {"type"} |-> JStr("vector")])],
     [k \in {"index_1", "index_2"} |-> IF k = "index_1" THEN JStr("hello") ELSE Nested],
     [k \in {"index_1", "index_2"} |-> IF k = "index_1" THEN PyObject ELSE JNull]}
    \cup {[k \in {"index_2"} |-> JNum(n)] : n \in 1..MaxNum}

\* the inputs of the concurrent specification
SmallDocSnapshots ==
    {MkDoc([k \in {"d1"} |-> Hello],
           [k \in {"d1"} |-> JObj([j \in {"d1"} |-> JBool(TRUE)])],
           [k \in {"class_name"} |-> JStr("X")]),
     MkDoc([k \in {"d2"} |-> JNull], EmptyDict, EmptyDict),
     MkDoc([k \in {"d2"} |-> Hello], [k \in {"d1"} |-> PyObject], EmptyDict)}
SmallIndexSnapshots ==
    {[k \in {"index_1"} |-> JObj([j \in {"type"} |-> JStr("vector")])],
     [k \in {"index_2"} |-> JStr("hello")]}

\* the inputs of the specification of paths
PathDocSnapshots ==
    {MkDoc([k \in {"d1"} |-> Hello], EmptyDict, EmptyDict),
     MkDoc([k \in {"d2"} |-> PyObject], EmptyDict, EmptyDict)}
PathIndexSnapshots ==
    {[k \in {"index_1"} |-> JNum(1)], [k \in {"index_1"} |-> PyObject]}

\* text no JSON document starts with: a payload cut short
Malformed == <<"{", Quote("text")>>
\* files another program left behind: one undecodable payload in one table
CorruptFile(table) ==
    [exists |-> TRUE,
     tables |-> IF table = "index_metadata" THEN Range(IndexTables)
                ELSE Range(DocTables),
     rows |-> [t \in AllTables |->
                 IF t = table
                 THEN [k \in {"d1", "d2"} |->
                          IF k = "d1" THEN Dumps(Hello) ELSE Malformed]
                 ELSE IF t = "documents" /\ table # "index_metadata"
                 THEN [k \in {"d1"} |-> Dumps(Hello)]
                 ELSE EmptyDict]]
InitialDocFiles == {NoFile, EmptyDbFile} \cup {CorruptFile(DocTables[i]) : i \in 1..3}
InitialIndexFiles == {NoFile, EmptyDbFile, CorruptFile("index_metadata")}
DefaultDocPath == ResolvePath("store", NoName, DOCSTORE_DB)
DefaultIndexPath == ResolvePath("store", NoName, INDEXSTORE_DB)

InitWith(docFiles, indexFiles) ==
    /\ \E d \in docFiles, i \in indexFiles :
          fs = [x \in Paths |->
                   IF x = DefaultDocPath THEN d
                   ELSE IF x = DefaultIndexPath THEN i ELSE NoFile]
    /\ lock = [x \in Paths |-> NoProc]
    /\ pc = [p \in Procs |-> "idle"]
    /\ call = [p \in Procs |-> NoCall]
    /\ outcome = [p \in Procs |-> NoOutcome]
    /\ store = [k \in Kinds |-> FreshInstance]
    /\ persisted = [x \in Paths |-> NoSnapshot]

Init == InitWith(InitialDocFiles, InitialIndexFiles)
\* the document store's file is missing, empty or holds a bad row; no index file
DocInit == InitWith({NoFile, EmptyDbFile, CorruptFile("ref_doc_info")}, {NoFile})
\* no file yet
FreshInit == InitWith({NoFile}, {NoFile})

(***************************************************************************)
(* Entering and leaving a call                                             *)
(***************************************************************************)
\* the other callers inside a call on the same path
Overlapping(p, path) ==
    {q \in Procs \ {p} : pc[q] # "idle" /\ call[q].path = path}

\* sqlite3.connect returned: the call runs with an open connection
Enter(p, op, kind, path, data, position) ==
    /\ pc' = [pc EXCEPT ![p] = position]
    /\ call' = [q \in Procs |->
          IF q = p
          THEN [op |-> op, kind |-> kind, path |-> path, data |-> data,
                conn |-> TRUE, txn |-> NoTxn, acc |-> EmptyDict,
                pre |-> fs[path],
                views |-> IF op = "hydrate" THEN {fs[path].rows} ELSE {},
                conc |-> Overlapping(p, path) # {}]
          ELSE IF q \in Overlapping(p, path)
          THEN [call[q] EXCEPT !.conc = TRUE]
          ELSE call[q]]
    /\ outcome' = [outcome EXCEPT ![p] = NoOutcome]

\* the call raised before it opened a connection
NotEntered(p, op, kind, path, data, status) ==
    /\ pc' = pc
    /\ call' = [call EXCEPT ![p] =
          [NoCall EXCEPT !.op = op, !.kind = kind, !.path = path,
                         !.data = data, !.pre = fs[path]]]
    /\ outcome' = [outcome EXCEPT ![p] = [status |-> status, value |-> EmptyDict]]

\* finally: connection.close()
CloseOnRaiseLeak(c) == c
CloseOnRaise(c) == [c EXCEPT !.conn = FALSE, !.txn = NoTxn, !.acc = EmptyDict]
CloseOnReturn(c) == [c EXCEPT !.conn = FALSE, !.txn = NoTxn, !.acc = EmptyDict]

\* a hydrate in progress on the path sees the rows now committed to it
Observe(q, c, path, rows) ==
    IF pc[q] # "idle" /\ c.op = "hydrate" /\ c.path = path
    THEN [c EXCEPT !.views = @ \cup {rows}]
    ELSE c

\* the call ends with its connection closed as `closed` says; fs' is set
\* by the caller of Leave, before it
Leave(p, status, value, closed) ==
    /\ pc' = [pc EXCEPT ![p] = "idle"]
    /\ call' = [q \in Procs |->
          IF q = p THEN closed
          ELSE Observe(q, call[q], closed.path, fs'[closed.path].rows)]
    /\ outcome' = [outcome EXCEPT ![p] = [status |-> status, value |-> value]]
    /\ lock' = [lock EXCEPT ![closed.path] =
          IF @ = p /\ ~closed.conn THEN NoProc ELSE @]

\* an exception leaves the try block: the connection is closed with the
\* transaction `txn` open on the file `file`, and the exception propagates
Raise(p, status, txn, file) ==
    /\ fs' = [fs EXCEPT ![call[p].path] = CloseFile(file, txn)]
    /\ Leave(p, status, EmptyDict, CloseOnRaise(call[p]))
    /\ UNCHANGED <<store, persisted>>

\* CREATE TABLE of a missing table needs the write lock another caller holds
DdlBlocked(p, schema) ==
    /\ ~(Range(schema) \subseteq fs[call[p].path].tables)
    /\ lock[call[p].path] \notin {NoProc, p}
\* the first DELETE needs the write lock another caller holds
DmlBlocked(p) == lock[call[p].path] \notin {NoProc, p}

\* _ensure_docstore_schema / the CREATE TABLE of the index functions
EnsureSchema(p, schema) ==
    /\ ~DdlBlocked(p, schema)
    /\ fs' = [fs EXCEPT ![call[p].path] = CreateTables(@, schema, Len(schema))]

\* one table of a write: DELETE, then executemany when there are items
WriteTable(p, table, items, next) ==
    /\ ~DmlBlocked(p)
    /\ LET c == call[p]
           r == ReplaceTable(BeginTxn(c.txn, fs[c.path]), table, items)
           e == StatementEnd(fs[c.path], r.txn)
       IN  IF r.ok
           THEN /\ fs' = [fs EXCEPT ![c.path] = e.file]
                /\ call' = [call EXCEPT ![p].txn = e.txn]
                /\ lock' = [lock EXCEPT ![c.path] =
                      IF e.txn.active THEN p ELSE NoProc]
                /\ pc' = [pc EXCEPT ![p] = next]
                /\ UNCHANGED <<outcome, store, persisted>>
           ELSE Raise(p, "TypeError", e.txn, e.file)

\* history: the rows (table, key) of file `old` that file `new` no longer has
DroppedKeys(old, new) ==
    {<<t, k>> \in AllTables \X UNION {DOMAIN old.rows[t] : t \in AllTables} :
        k \in DOMAIN old.rows[t] /\ k \notin DOMAIN new.rows[t]}

\* connection.commit(), finally: close(), return; then self._db_path = db_path
CommitAndReturn(p) ==
    LET c == call[p] IN
    /\ fs' = [fs EXCEPT ![c.path] = CommitFile(@, c.txn)]
    /\ Leave(p, "ok", EmptyDict, CloseOnReturn(c))
    /\ store' = [store EXCEPT ![c.kind].db_path = c.path]
    /\ persisted' = [persisted EXCEPT ![c.path] =
          [some |-> TRUE, kind |-> c.kind, data |-> c.data,
           dropped |-> @.some /\ DroppedKeys(fs[c.path], fs'[c.path]) # {}]]

(***************************************************************************)
(* SqliteDocumentStore.persist and _write_docstore                         *)
(***************************************************************************)
\* db_path is resolved, the parent directory made, the connection opened
\* (which creates the file); or mkdir / connect raise
SqliteDocumentStore_persist(p, persist_dir, db_name, data) ==
    /\ pc[p] = "idle"
    /\ LET db_path == ResolvePath(persist_dir, db_name, DOCSTORE_DB) IN
       \/ /\ fs' = [fs EXCEPT ![db_path].exists = TRUE]
          /\ Enter(p, "persist", "doc", db_path, data, "wd_schema")
          /\ UNCHANGED <<lock, store, persisted>>
       \/ /\ NotEntered(p, "persist", "doc", db_path, data, IOERROR)
          /\ UNCHANGED <<fs, lock, store, persisted>>

write_docstore_schema(p) ==
    /\ pc[p] = "wd_schema"
    /\ EnsureSchema(p, DocTables)
    /\ pc' = [pc EXCEPT ![p] = "wd_documents"]
    /\ UNCHANGED <<lock, call, outcome, store, persisted>>

write_docstore_documents(p) ==
    /\ pc[p] = "wd_documents"
    /\ WriteTable(p, "documents", Get(call[p].data, "documents", EmptyDict),
                  "wd_ref_doc_info")

write_docstore_ref_doc_info(p) ==
    /\ pc[p] = "wd_ref_doc_info"
    /\ WriteTable(p, "ref_doc_info", Get(call[p].data, "ref_doc_info", EmptyDict),
                  "wd_metadata")

\* extra = {k: v for k, v in data.items() if k not in {"documents", "ref_doc_info"}}
ExtraNone(data) == EmptyDict
Extra(data) == Without(data, {"documents", "ref_doc_info"})

write_docstore_metadata(p) ==
    /\ pc[p] = "wd_metadata"
    /\ WriteTable(p, "metadata", Extra(call[p].data), "wd_commit")

write_docstore_commit(p) ==
    /\ pc[p] = "wd_commit"
    /\ CommitAndReturn(p)

(***************************************************************************)
(* SqliteDocumentStore.from_persist_dir and _read_docstore                 *)
(***************************************************************************)
\* if not db_path.exists(): raise FileNotFoundError; else connect
SqliteDocumentStore_from_persist_dir(p, persist_dir, db_name) ==
    /\ pc[p] = "idle"
    /\ LET db_path == ResolvePath(persist_dir, db_name, DOCSTORE_DB) IN
       IF ~Exists(fs[db_path])
       THEN /\ NotEntered(p, "hydrate", "doc", db_path, EmptyDict, "FileNotFoundError")
            /\ UNCHANGED <<fs, lock, store, persisted>>
       ELSE /\ Enter(p, "hydrate", "doc", db_path, EmptyDict, "rd_schema")
            /\ UNCHANGED <<fs, lock, store, persisted>>

\* data = {"documents": {}, "ref_doc_info": {}}
EmptyDocstore == [k \in {"documents", "ref_doc_info"} |-> EmptyDict]

read_docstore_schema(p) ==
    /\ pc[p] = "rd_schema"
    /\ EnsureSchema(p, DocTables)
    /\ pc' = [pc EXCEPT ![p] = "rd_documents"]
    /\ call' = [call EXCEPT ![p].acc = EmptyDocstore]
    /\ UNCHANGED <<lock, outcome, store, persisted>>

\* one SELECT loop filling data[field]
ReadInto(p, table, field, next) ==
    LET c == call[p]
        r == ReadTable(fs[c.path].rows[table])
    IN  IF r.ok
        THEN /\ call' = [call EXCEPT ![p].acc[field] = Update(@, r.d)]
             /\ pc' = [pc EXCEPT ![p] = next]
             /\ UNCHANGED <<fs, lock, outcome, store, persisted>>
        ELSE Raise(p, "JSONDecodeError", c.txn, fs[c.path])

\* the last SELECT loop fills the top level of data; return data, finally
\* close(); the adapter builds the instance and records the path on it
ReadTopLevelAndReturn(p, table) ==
    LET c == call[p]
        r == ReadTable(fs[c.path].rows[table])
    IN  IF r.ok
        THEN /\ fs' = fs
             /\ Leave(p, "ok", Update(c.acc, r.d), CloseOnReturn(c))
             /\ store' = [store EXCEPT ![c.kind] = [db_path |-> c.path]]
             /\ UNCHANGED persisted
        ELSE Raise(p, "JSONDecodeError", c.txn, fs[c.path])

read_docstore_documents(p) ==
    /\ pc[p] = "rd_documents"
    /\ ReadInto(p, "documents", "documents", "rd_ref_doc_info")

read_docstore_ref_doc_info(p) ==
    /\ pc[p] = "rd_ref_doc_info"
    /\ ReadInto(p, "ref_doc_info", "ref_doc_info", "rd_metadata")

read_docstore_metadata(p) ==
    /\ pc[p] = "rd_metadata"
    /\ ReadTopLevelAndReturn(p, "metadata")

(***************************************************************************)
(* SqliteIndexStore: persist, _write_indexstore, from_persist_dir,         *)
(* _read_indexstore                                                        *)
(***************************************************************************)
SqliteIndexStore_persist(p, persist_dir, db_name, data) ==
    /\ pc[p] = "idle"
    /\ LET db_path == ResolvePath(persist_dir, db_name, INDEXSTORE_DB) IN
       \/ /\ fs' = [fs EXCEPT ![db_path].exists = TRUE]
          /\ Enter(p, "persist", "index", db_path, data, "wi_schema")
          /\ UNCHANGED <<lock, store, persisted>>
       \/ /\ NotEntered(p, "persist", "index", db_path, data, IOERROR)
          /\ UNCHANGED <<fs, lock, store, persisted>>

write_indexstore_schema(p) ==
    /\ pc[p] = "wi_schema"
    /\ EnsureSchema(p, IndexTables)
    /\ pc' = [pc EXCEPT ![p] = "wi_index_metadata"]
    /\ UNCHANGED <<lock, call, outcome, store, persisted>>

write_indexstore_index_metadata(p) ==
    /\ pc[p] = "wi_index_metadata"
    /\ WriteTable(p, "index_metadata", call[p].data, "wi_commit")

write_indexstore_commit(p) ==
    /\ pc[p] = "wi_commit"
    /\ CommitAndReturn(p)

SqliteIndexStore_from_persist_dir(p, persist_dir, db_name) ==
    /\ pc[p] = "idle"
    /\ LET db_path == ResolvePath(persist_dir, db_name, INDEXSTORE_DB) IN
       IF ~Exists(fs[db_path])
       THEN /\ NotEntered(p, "hydrate", "index", db_path, EmptyDict, "FileNotFoundError")
            /\ UNCHANGED <<fs, lock, store, persisted>>
       ELSE /\ Enter(p, "hydrate", "index", db_path, EmptyDict, "ri_schema")
            /\ UNCHANGED <<fs, lock, store, persisted>>

\* data: Dict[str, Any] = {}
EmptyIndexstoreLikeDocstore == EmptyDocstore
EmptyIndexstore == EmptyDict

read_indexstore_schema(p) ==
    /\ pc[p] = "ri_schema"
    /\ EnsureSchema(p, IndexTables)
    /\ pc' = [pc EXCEPT ![p] = "ri_index_metadata"]
    /\ call' = [call EXCEPT ![p].acc = EmptyIndexstore]
    /\ UNCHANGED <<lock, outcome, store, persisted>>

read_indexstore_index_metadata(p) ==
    /\ pc[p] = "ri_index_metadata"
    /\ ReadTopLevelAndReturn(p, "index_metadata")

(***************************************************************************)
(* Failures of the environment                                             *)
(***************************************************************************)
SchemaPositions == {"wd_schema", "rd_schema", "wi_schema", "ri_schema"}
SchemaAt(position) ==
    IF position \in {"wd_schema", "rd_schema"} THEN DocTables ELSE IndexTables

\* the busy timeout expires while another connection holds the write lock
Busy(p) ==
    /\ pc[p] # "idle"
    /\ \/ pc[p] \in SchemaPositions /\ DdlBlocked(p, SchemaAt(pc[p]))
       \/ pc[p] \in {"wd_documents", "wi_index_metadata"} /\ DmlBlocked(p)
    /\ Raise(p, LOCKED, call[p].txn, fs[call[p].path])

\* the statement the call is about to run fails (disk full, I/O error, the
\* caller is interrupted); the schema step may fail after some of its
\* CREATE TABLE statements have run
Fault(p) ==
    /\ pc[p] # "idle"
    /\ LET c == call[p] IN
       IF pc[p] \in SchemaPositions /\ ~DdlBlocked(p, SchemaAt(pc[p]))
       THEN \E k \in 0..(Len(SchemaAt(pc[p])) - 1) :
               Raise(p, IOERROR, c.txn, CreateTables(fs[c.path], SchemaAt(pc[p]), k))
       ELSE Raise(p, IOERROR, c.txn, fs[c.path])

\* the application replaces a store by a new, empty instance
NewInstance(kind) ==
    /\ store' = [store EXCEPT ![kind] = FreshInstance]
    /\ UNCHANGED <<fs, lock, pc, call, outcome, persisted>>

(***************************************************************************)
(* Specifications                                                          *)
(***************************************************************************)
DocStep(p, dirs, names, docs) ==
    \/ \E d \in dirs, n \in names, data \in docs :
          SqliteDocumentStore_persist(p, d, n, data)
    \/ write_docstore_schema(p)
    \/ write_docstore_documents(p)
    \/ write_docstore_ref_doc_info(p)
    \/ write_docstore_metadata(p)
    \/ write_docstore_commit(p)
    \/ \E d \in dirs, n \in names : SqliteDocumentStore_from_persist_dir(p, d, n)
    \/ read_docstore_schema(p)
    \/ read_docstore_documents(p)
    \/ read_docstore_ref_doc_info(p)
    \/ read_docstore_metadata(p)

IndexStep(p, dirs, names, idxs) ==
    \/ \E d \in dirs, n \in names, data \in idxs :
          SqliteIndexStore_persist(p, d, n, data)
    \/ write_indexstore_schema(p)
    \/ write_indexstore_index_metadata(p)
    \/ write_indexstore_commit(p)
    \/ \E d \in dirs, n \in names : SqliteIndexStore_from_persist_dir(p, d, n)
    \/ read_indexstore_schema(p)
    \/ read_indexstore_index_metadata(p)

\* two callers on the document store, any interleaving of their statements
Next ==
    \/ \E p \in Procs : DocStep(p, PersistDirs, {NoName}, SmallDocSnapshots)
    \/ \E p \in Procs : Fault(p)
    \/ \E p \in Procs : Busy(p)
Spec == DocInit /\ [][Next]_vars

\* one caller, one call after the other, both stores
SeqNext ==
    \/ DocStep("t1", PersistDirs, {NoName}, DocSnapshots)
    \/ IndexStep("t1", PersistDirs, {NoName}, IndexSnapshots)
    \/ Fault("t1")
SeqSpec == Init /\ [][SeqNext]_vars

\* one caller, default and override file names, instances replaced
PathNext ==
    \/ DocStep("t1", PersistDirs, {NoName, "", "docstore.db"}, PathDocSnapshots)
    \/ IndexStep("t1", PersistDirs, {NoName, "index.db"}, PathIndexSnapshots)
    \/ Fault("t1")
    \/ \E k \in Kinds : NewInstance(k)
PathSpec == FreshInit /\ [][PathNext]_vars

(***************************************************************************)
(* Properties                                                              *)
(***************************************************************************)
Done(p) == pc[p] = "idle" /\ call[p].op # "none"
Returned(p) == Done(p) /\ outcome[p].status = "ok"
Raised(p) == Done(p) /\ outcome[p].status \in Errors
Hydrated(p) == Returned(p) /\ call[p].op = "hydrate"

SchemaTables(kind) == IF kind = "doc" THEN Range(DocTables) ELSE Range(IndexTables)
TopLevel == {"documents", "ref_doc_info"}

\* the keys a snapshot puts into a table
SnapshotKeys(kind, S, table) ==
    CASE kind = "doc" /\ table \in TopLevel -> DOMAIN Get(S, table, EmptyDict)
      [] kind = "doc" /\ table = "metadata" -> (DOMAIN S) \ TopLevel
      [] kind = "index" /\ table = "index_metadata" -> DOMAIN S
      [] OTHER -> {}

\* a snapshot as a read is to return it: absent sub-mappings read back empty
WithDefaults(S) ==
    [k \in (DOMAIN S) \cup TopLevel |-> IF k \in DOMAIN S THEN S[k] ELSE EmptyDict]
ExpectedRead(kind, S) == IF kind = "doc" THEN WithDefaults(S) ELSE S

\* C1: persist is a full replace observed in call order.  After any sequence
\* of persist calls to a path (either store), a read of the path that
\* returns, returns the snapshot of the last persist that returned, and
\* every table of the file holds the keys of that snapshot and no others: no
\* key of an earlier snapshot survives.
C1_LastPersistReplaces ==
    /\ \A p \in Procs :
          Hydrated(p) /\ persisted[call[p].path].some
          => outcome[p].value =
                ExpectedRead(call[p].kind, persisted[call[p].path].data)
    /\ \A x \in Paths :
          persisted[x].some
          => \A t \in AllTables :
                DOMAIN fs[x].rows[t] =
                   SnapshotKeys(persisted[x].kind, persisted[x].data, t)

\* a read returned after a persist that removed keys of the snapshot before it
C1_Witness ==
    \E p \in Procs :
       /\ Hydrated(p)
       /\ persisted[call[p].path].some
       /\ persisted[call[p].path].dropped
       /\ outcome[p].value # EmptyDocstore

\* C2: document-store round trip.  A read that returns after snapshot S was
\* written returns documents and ref_doc_info of S (empty mappings where S
\* has none), every other top-level key of S with its value, and nothing
\* else.
C2_DocstoreRoundTrip ==
    \A p \in Procs :
       Hydrated(p) /\ call[p].kind = "doc" /\ persisted[call[p].path].some
       => LET S == persisted[call[p].path].data
              R == outcome[p].value
          IN  /\ DOMAIN R = (DOMAIN S) \cup TopLevel
              /\ \A k \in TopLevel :
                    R[k] = IF k \in DOMAIN S THEN S[k] ELSE EmptyDict
              /\ \A k \in (DOMAIN S) \ TopLevel : R[k] = S[k]

\* a snapshot without ref_doc_info, with an extra key and a nested payload
\* has been written and read back
C2_Witness ==
    \E p \in Procs :
       /\ Hydrated(p) /\ call[p].kind = "doc"
       /\ persisted[call[p].path].some
       /\ "ref_doc_info" \notin DOMAIN persisted[call[p].path].data
       /\ outcome[p].value["ref_doc_info"] = EmptyDict
       /\ outcome[p].value["documents"] = [k \in {"d1"} |-> Nested]
       /\ outcome[p].value["class_name"] = JStr("X")

\* C3: a persist that raises at any step leaves the file's rows, in every
\* table, as they were when the call began, and drops no table.
C3_FailedPersistKeepsSnapshot ==
    \A p \in Procs :
       Raised(p) /\ call[p].op = "persist"
       => /\ fs[call[p].path].rows = call[p].pre.rows
          /\ call[p].pre.tables \subseteq fs[call[p].path].tables

\* a persist over a persisted snapshot raised after it had cleared the
\* documents table and inserted one of two rows
C3_Witness ==
    \E p \in Procs :
       /\ Raised(p) /\ call[p].op = "persist" /\ call[p].kind = "doc"
       /\ outcome[p].status = "TypeError"
       /\ persisted[call[p].path].some
       /\ call[p].pre.rows["documents"] # EmptyDict
       /\ call[p].data["documents"] =
             [k \in {"d1", "d2"} |-> IF k = "d1" THEN Hello ELSE PyObject]

\* C4: a read raises FileNotFoundError exactly when there is no file at the
\* path; a read of a file without rows (with or without tables) that meets
\* no I/O error returns the empty store.
C4_NotFoundIffMissing ==
    \A p \in Procs :
       Done(p) /\ call[p].op = "hydrate"
       => /\ (outcome[p].status = "FileNotFoundError") <=> ~call[p].pre.exists
          /\ ( /\ call[p].pre.exists
               /\ \A t \in SchemaTables(call[p].kind) : call[p].pre.rows[t] = EmptyDict
               /\ outcome[p].status # IOERROR )
             => /\ outcome[p].status = "ok"
                /\ outcome[p].value =
                      IF call[p].kind = "doc" THEN EmptyDocstore ELSE EmptyDict

\* a read of a file that had no tables yet returned the empty document store
C4_Witness ==
    \E p \in Procs :
       /\ Hydrated(p) /\ call[p].kind = "doc"
       /\ call[p].pre = EmptyDbFile
       /\ outcome[p].value = EmptyDocstore

\* what one read transaction over the rows of a document-store file returns
AtomicRead(rows) ==
    LET d == ReadTable(rows["documents"])
        r == ReadTable(rows["ref_doc_info"])
        m == ReadTable(rows["metadata"])
    IN  [ok |-> d.ok /\ r.ok /\ m.ok,
         data |-> Update([k \in TopLevel |-> IF k = "documents" THEN d.d ELSE r.d],
                         m.d)]

\* C5: a hydrate that runs while persists to its file commit returns one
\* complete snapshot: what the file held when the hydrate connected, or what
\* one of the commits during the hydrate left in it.
C5_HydrateSeesOneSnapshot ==
    \A p \in Procs :
       Hydrated(p) /\ call[p].kind = "doc"
       => \E rows \in call[p].views :
             AtomicRead(rows).ok /\ AtomicRead(rows).data = outcome[p].value

\* the file holds snapshot S in full: the keys of S in every table, each
\* payload decoding to the value S gives the key
FileHolds(file, kind, S) ==
    \A t \in AllTables :
       /\ DOMAIN file.rows[t] = SnapshotKeys(kind, S, t)
       /\ \A k \in DOMAIN file.rows[t] :
             /\ json_loads(file.rows[t][k]).ok
             /\ json_loads(file.rows[t][k]).v =
                   IF t \in TopLevel THEN S[t][k] ELSE S[k]

\* the last calls of p and q were persists of different snapshots to one
\* file, and each ran while the other was in progress
ConcurrentPersists(p, q) ==
    /\ p # q /\ Done(p) /\ Done(q)
    /\ call[p].op = "persist" /\ call[q].op = "persist"
    /\ call[p].path = call[q].path
    /\ call[p].conc /\ call[q].conc
    /\ call[p].data # call[q].data

\* C6 as claimed: once two concurrent persists have returned or raised, the
\* file holds one of their two snapshots in full.
C6_OneOfTheTwoSnapshots ==
    \A p, q \in Procs :
       ConcurrentPersists(p, q)
       => \/ FileHolds(fs[call[p].path], call[p].kind, call[p].data)
          \/ FileHolds(fs[call[p].path], call[q].kind, call[q].data)

\* C6 as amended: once two concurrent persists have returned or raised, the
\* file holds in full the snapshot of one that returned; when both raised,
\* its rows are those it had when one of the two calls began.  Never a
\* mixture of the two snapshots.
C6_LastCommitWinsOrNothing ==
    \A p, q \in Procs :
       ConcurrentPersists(p, q)
       => /\ (Returned(p) \/ Returned(q))
             => \E w \in {p, q} :
                   Returned(w) /\ FileHolds(fs[call[w].path], call[w].kind, call[w].data)
          /\ (~Returned(p) /\ ~Returned(q))
             => \E w \in {p, q} : fs[call[w].path].rows = call[w].pre.rows

\* two concurrent persists of different snapshots both returned
C6_Witness ==
    \E p, q \in Procs :
       /\ ConcurrentPersists(p, q)
       /\ Returned(p) /\ Returned(q)
       /\ FileHolds(fs[call[p].path], call[p].kind, call[p].data)

\* C7: a connection is open exactly while its call runs: a caller that is
\* not inside a call holds no connection, however the call ended, and with
\* no call in progress no connection is open.
C7_ConnectionsScoped ==
    /\ \A p \in Procs : call[p].conn <=> pc[p] # "idle"
    /\ (\A p \in Procs : pc[p] = "idle")
       => Cardinality({p \in Procs : call[p].conn}) = 0

\* a read raised while decoding, a write raised while encoding: both closed
C7_Witness ==
    \E p \in Procs :
       /\ Raised(p)
       /\ outcome[p].status = "JSONDecodeError"
       /\ call[p].kind = "index"
       /\ ~call[p].conn

\* a table of the store has a payload json.loads rejects
HasBadRow(file, kind) ==
    \E t \in SchemaTables(kind) :
       \E k \in DOMAIN file.rows[t] : ~json_loads(file.rows[t][k]).ok

\* C8: a read of a store with an undecodable payload in any of its tables
\* raises (the decoding error, unless an I/O error came first) and returns
\* no snapshot.
C8_BadPayloadRaises ==
    \A p \in Procs :
       Done(p) /\ call[p].op = "hydrate" /\ HasBadRow(call[p].pre, call[p].kind)
       => /\ outcome[p].status \in {"JSONDecodeError", IOERROR}
          /\ outcome[p].value = EmptyDict

\* the bad row was in the last table read, after two tables had decoded
C8_Witness ==
    \E p \in Procs :
       /\ Done(p) /\ call[p].op = "hydrate"
       /\ call[p].pre = CorruptFile("metadata")
       /\ outcome[p].status = "JSONDecodeError"

\* C9: index-store round trip.  A read that returns after the flat mapping M
\* was written returns M: the keys of M with their values, and no
\* documents or ref_doc_info key that M does not have.
C9_IndexstoreRoundTrip ==
    \A p \in Procs :
       Hydrated(p) /\ call[p].kind = "index" /\ persisted[call[p].path].some
       => LET M == persisted[call[p].path].data
              R == outcome[p].value
          IN  /\ DOMAIN R = DOMAIN M
              /\ \A k \in DOMAIN M : R[k] = M[k]
              /\ TopLevel \cap (DOMAIN R) = {}

\* a two-entry mapping with a nested payload was written and read back
C9_Witness ==
    \E p \in Procs :
       /\ Hydrated(p) /\ call[p].kind = "index"
       /\ persisted[call[p].path].some
       /\ outcome[p].value =
             [k \in {"index_1", "index_2"} |-> IF k = "index_1" THEN JStr("hello") ELSE Nested]

\* the file a store persists to when no name is given
StoreFile(kind) == IF kind = "doc" THEN DefaultDocPath ELSE DefaultIndexPath
OtherKind(kind) == IF kind = "doc" THEN "index" ELSE "doc"
\* this step is taken by a persist of the store `kind` of caller p
PersistStep(p, kind) ==
    \/ pc[p] # "idle" /\ call[p].op = "persist" /\ call[p].kind = kind
    \/ /\ pc[p] = "idle"
       /\ call'[p].op = "persist" /\ call'[p].kind = kind
       /\ (pc'[p] # "idle" \/ call'[p] # call[p] \/ outcome'[p] # outcome[p])

\* C10: no step of a persist of one store, whether the persist returns or
\* raises, changes the other store's file or the snapshot recorded for it.
C10_StoresPersistIndependently ==
    [][\A p \in Procs, k \in Kinds :
          PersistStep(p, k)
          => /\ fs'[StoreFile(OtherKind(k))] = fs[StoreFile(OtherKind(k))]
             /\ persisted'[StoreFile(OtherKind(k))] = persisted[StoreFile(OtherKind(k))]]_vars

\* the document store was persisted again, replacing keys, after the index
\* store's only persist: the document file is the newer of the two
C10_Witness ==
    \E p \in Procs :
       /\ Returned(p) /\ call[p].op = "persist" /\ call[p].kind = "doc"
       /\ persisted[DefaultDocPath].dropped
       /\ persisted[DefaultIndexPath].some
       /\ ~persisted[DefaultIndexPath].dropped

\* C11: reading a path on which no persist has completed raises
\* FileNotFoundError and returns no store, the empty store included, also
\* after a persist to a fresh path that failed before its commit.  (A read
\* the environment fails with an I/O error is not held against the claim.)
C11_NotFoundUntilFirstPersist ==
    \A p \in Procs :
       Done(p) /\ call[p].op = "hydrate" /\ ~persisted[call[p].path].some
       => outcome[p].status \in {"FileNotFoundError", IOERROR}

\* what a read of a store's file returns when nothing interleaves with it
StoredSnapshot(kind, rows) ==
    IF kind = "doc" THEN AtomicRead(rows)
    ELSE LET r == ReadTable(rows["index_metadata"]) IN [ok |-> r.ok, data |-> r.d]
\* this step is taken by a hydrate of caller p: its first step or a later one
HydrateStep(p) ==
    \/ pc[p] # "idle" /\ call[p].op = "hydrate" /\ pc'[p] # pc[p]
    \/ pc[p] = "idle" /\ call'[p].op = "hydrate"
       /\ (pc'[p] # "idle" \/ call'[p] # call[p] \/ outcome'[p] # outcome[p])
\* the file of the call that p is in, or begins, in this step
HydratePath(p) == IF pc[p] = "idle" THEN call'[p].path ELSE call[p].path
HydrateKind(p) == IF pc[p] = "idle" THEN call'[p].kind ELSE call[p].kind

\* C12: a hydrate never changes persisted content.  No step of a hydrate
\* (the schema step included) changes a row of any file, creates or removes
\* a file, drops a table or changes the recorded snapshots; a hydrate that
\* returns, returns what the rows of its file decode to, so repeated
\* hydrates of the same file return the same snapshot; a hydrate raises
\* FileNotFoundError only when the file is missing, and then the file is
\* still missing afterwards, and raises a decode error only for a row that
\* does not decode.
C12_HydrateLeavesContent ==
    [][\A p \in Procs :
          HydrateStep(p)
          => /\ \A x \in Paths :
                   /\ fs'[x].rows = fs[x].rows
                   /\ fs'[x].exists = fs[x].exists
                   /\ fs[x].tables \subseteq fs'[x].tables
             /\ persisted' = persisted
             /\ (pc[p] = "idle" /\ ~fs[HydratePath(p)].exists
                   => /\ pc'[p] = "idle"
                      /\ outcome'[p].status = "FileNotFoundError")
             /\ (outcome'[p].status = "FileNotFoundError"
                   => ~fs'[HydratePath(p)].exists)
             /\ (outcome'[p].status = "JSONDecodeError"
                   => ~StoredSnapshot(HydrateKind(p), fs[HydratePath(p)].rows).ok)
             /\ (outcome'[p].status = "ok"
                   => LET r == StoredSnapshot(HydrateKind(p), fs'[HydratePath(p)].rows)
                      IN  r.ok /\ outcome'[p].value = r.data)]_vars

\* a hydrate of a file holding a persisted snapshot with documents returned
\* them, the rows of the file being what they were when the call began
C12_Witness ==
    \E p \in Procs :
       /\ Hydrated(p) /\ call[p].kind = "doc"
       /\ persisted[call[p].path].some
       /\ "documents" \in DOMAIN outcome[p].value
       /\ outcome[p].value["documents"] # EmptyDict
       /\ call[p].pre.rows = fs[call[p].path].rows

\* the file name a store uses when the call names none
DefaultName(kind) == IF kind = "doc" THEN DOCSTORE_DB ELSE INDEXSTORE_DB
\* the names a call may be given
CallNames == {NoName, "", "docstore.db", "index.db"}
\* in this step caller p begins persist(d, n) or from_persist_dir(d, n) on
\* the store `kind`; the test of the path is implied by each action and
\* spares evaluating the action for the other names
Begins(p, kind, d, n) ==
    LET c == call'[p] IN
    /\ c.path = ResolvePath(d, n, DefaultName(kind))
    /\ CASE kind = "doc" /\ c.op = "persist" ->
               \E data \in {c.data} \cap PathDocSnapshots :
                  SqliteDocumentStore_persist(p, d, n, data)
         [] kind = "doc" /\ c.op = "hydrate" ->
               SqliteDocumentStore_from_persist_dir(p, d, n)
         [] kind = "index" /\ c.op = "persist" ->
               \E data \in {c.data} \cap PathIndexSnapshots :
                  SqliteIndexStore_persist(p, d, n, data)
         [] kind = "index" /\ c.op = "hydrate" ->
               SqliteIndexStore_from_persist_dir(p, d, n)
         [] OTHER -> FALSE
\* d joined with n, the default name standing in for a name of `omitted`
JoinOrDefault(d, n, default, omitted) ==
    <<d, IF n \in omitted THEN default ELSE n>>
\* this step changes what caller p is doing
Moves(p) == pc'[p] # pc[p] \/ outcome'[p] # outcome[p] \/ call'[p] # call[p]
\* the steps of the calls record d joined with n, the default name standing
\* in for the names of `omitted`, and only when the call returns
RecordsPath(omitted) ==
    /\ \A p \in Procs :
          Moves(p)
          => /\ \A kind \in {call'[p].kind} \cap Kinds, d \in PersistDirs, n \in CallNames :
                   pc[p] = "idle" /\ Begins(p, kind, d, n)
                   => call'[p].path = JoinOrDefault(d, n, DefaultName(kind), omitted)
             /\ (pc[p] # "idle" /\ pc'[p] = "idle" /\ outcome'[p].status = "ok"
                   => store'[call[p].kind].db_path = call[p].path)
             /\ (call'[p].op = "persist" /\ outcome'[p].status \in Errors
                   => store' = store)
    /\ \A k \in Kinds : NewInstance(k) => store'[k].db_path = NoPath

\* C13 as stated: after a hydrate or persist with directory d and name n
\* returns, the instance's recorded path is d joined with n, or with the
\* store's default file name when n is omitted; a persist that raises leaves
\* the recorded path as it was; a fresh instance has no recorded path.
C13_RecordedPathAsStated ==
    /\ \A k \in Kinds : store[k].db_path = NoPath
    /\ [][RecordsPath({NoName})]_vars

\* C13, amended: as above, the default file name being used when n is
\* omitted or is the empty string.
C13_RecordedPath ==
    /\ \A k \in Kinds : store[k] = FreshInstance
    /\ [][RecordsPath({NoName, ""})]_vars

\* a persist under an override name returned and recorded that path, and a
\* later persist to the default path raised, leaving the recorded path
C13_Witness ==
    \E p \in Procs :
       /\ Raised(p) /\ call[p].op = "persist" /\ call[p].kind = "doc"
       /\ call[p].path = DefaultDocPath
       /\ store["doc"].db_path = <<"store", "docstore.db">>
       /\ persisted[<<"store", "docstore.db">>].some

====
